---- MODULE Spec2Model ----
(***************************************************************************)
(* A model of chromosome_plotting.py: the Chromosome entity with its       *)
(* validating setters and normalising getters, and plot_chromosome with    *)
(* _plot_locuses, drawing onto a matplotlib Axes.                          *)
(*                                                                         *)
(* Python values are tagged records: None, Num(n) (an instance of Number), *)
(* Obj (a value that is neither a Number nor an Iterable) and List(s).     *)
(* Results of float arithmetic are exact rationals <<n, d>> in lowest      *)
(* terms with d > 0; rounding of binary floating point is not modelled.    *)
(***************************************************************************)
EXTENDS Integers, Sequences, FiniteSets, TLC

VARIABLES
    length,       \* self.length
    _centromere,  \* self._centromere
    _locuses,     \* self._locuses
    ax,           \* the Axes drawn on
    call,         \* the operation called last and what it was called with
    pc,           \* "ready" before plot_chromosome is called, "done" otherwise
    exc,          \* the exception the last call raised, or NoExc
    ret,          \* the value the last call returned
    warned,       \* the number of warnings the last call emitted
    setArg        \* the argument of the last successful assignment to locuses

vars == <<length, _centromere, _locuses, ax, call, pc, exc, ret, warned, setArg>>

(* Bounds of the model *)
MaxLength == 2
MaxLocuses == 2

-----------------------------------------------------------------------------
(* Python values *)

None == [t |-> "None"]
Num(n) == [t |-> "num", v |-> n]
Obj == [t |-> "object"]
List(s) == [t |-> "list", items |-> s]

IsNumber(value) == value.t = "num"
IsIterable(value) == value.t = "list"

NoExc == "none"

-----------------------------------------------------------------------------
(* Exact arithmetic standing for Python's float arithmetic *)

Abs(n) == IF n < 0 THEN -n ELSE n

RECURSIVE GCD(_, _)
GCD(a, b) == IF b = 0 THEN a ELSE GCD(b, a % b)

Rat(n, d) ==
    IF d = 1 THEN <<n, 1>>
    ELSE LET g == GCD(Abs(n), Abs(d))
             s == IF d < 0 THEN -1 ELSE 1
         IN  <<(s * n) \div g, (s * d) \div g>>

R(n) == <<n, 1>>
RAdd(a, b) == Rat(a[1] * b[2] + b[1] * a[2], a[2] * b[2])
RSub(a, b) == Rat(a[1] * b[2] - b[1] * a[2], a[2] * b[2])
RMul(a, b) == Rat(a[1] * b[1], a[2] * b[2])
RDiv(a, b) == Rat(a[1] * b[2], a[2] * b[1])
RLe(a, b) == a[1] * b[2] <= b[1] * a[2]
RLt(a, b) == a[1] * b[2] < b[1] * a[2]

-----------------------------------------------------------------------------
(* Chromosome: coordinate validation, setters and getters *)

\* _check_coord without the lower bound of the range test
_check_coord_no_lower(len, coord) ==
    IF ~IsNumber(coord) THEN "ValueError: should be a number"
    ELSE IF ~(coord.v <= len) THEN "KeyError: out of length"
    ELSE NoExc

\* _check_coord: the exception it raises for coord, or NoExc
_check_coord(len, coord) ==
    IF ~IsNumber(coord) THEN "ValueError: should be a number"
    ELSE IF ~(0 <= coord.v /\ coord.v <= len) THEN "KeyError: out of length"
    ELSE NoExc

\* the loop over the elements in locuses.setter: the first exception raised,
\* and the number of elements that passed _check_coord before it
RECURSIVE CheckAll(_, _, _)
CheckAll(len, items, passed) ==
    IF items = <<>> THEN [exc |-> NoExc, passed |-> passed]
    ELSE LET e == _check_coord(len, Head(items))
         IN  IF e # NoExc THEN [exc |-> e, passed |-> passed]
             ELSE CheckAll(len, Tail(items), passed + 1)

\* centromere.setter that validates None like any other value
centromere_setter_checks_none(len, old, centromere) ==
    LET e == _check_coord(len, centromere)
    IN  [exc |-> e, centromere |-> IF e = NoExc THEN centromere ELSE old]

\* centromere.setter: [exc, centromere] given the stored value and the argument
centromere_setter(len, old, centromere) ==
    LET e == IF centromere # None THEN _check_coord(len, centromere) ELSE NoExc
    IN  [exc |-> e, centromere |-> IF e = NoExc THEN centromere ELSE old]

\* locuses.setter that assigns before it validates
locuses_setter_assigns_first(len, old, locuses) ==
    IF locuses = None THEN [exc |-> NoExc, locuses |-> None, passed |-> 0]
    ELSE LET wrapped == IF ~IsIterable(locuses) THEN List(<<locuses>>) ELSE locuses
             c == CheckAll(len, wrapped.items, 0)
         IN  [exc |-> c.exc, locuses |-> wrapped, passed |-> c.passed]

\* locuses.setter: [exc, locuses, passed] given the stored value and the
\* argument; passed counts the elements validated before the exception
locuses_setter(len, old, locuses) ==
    IF locuses = None THEN [exc |-> NoExc, locuses |-> None, passed |-> 0]
    ELSE LET wrapped == IF ~IsIterable(locuses) THEN List(<<locuses>>) ELSE locuses
             c == CheckAll(len, wrapped.items, 0)
         IN  [exc |-> c.exc, locuses |-> IF c.exc = NoExc THEN wrapped ELSE old,
              passed |-> c.passed]

\* centromere (getter)
centromere_getter(stored) == stored

\* locuses (getter) that returns the stored coordinates without dividing
locuses_getter_raw(len, stored) ==
    IF IsIterable(stored)
    THEN List([i \in 1..Len(stored.items) |-> R(stored.items[i].v)])
    ELSE stored

\* locuses (getter): each element divided by length, None passed through
locuses_getter(len, stored) ==
    IF IsIterable(stored)
    THEN List([i \in 1..Len(stored.items) |-> RDiv(R(stored.items[i].v), R(len))])
    ELSE stored

-----------------------------------------------------------------------------
(* Drawing: Box, _add_box_to_ax, _plot_locuses, plot_chromosome *)

\* keyword defaults of plot_chromosome that the model keeps fixed
linewidth == 2
corner_radius == <<5, 2>>
edgecolor == "black"
facecolor == "#e4f2f9"
locuses_color == "red"

\* a new Axes, and one that an earlier drawing has already used
EmptyAxes ==
    [xlim |-> <<R(0), R(1)>>, ylim |-> <<R(0), R(1)>>, aspect |-> "auto",
     boxes |-> <<>>, lines |-> <<>>, axis_on |-> TRUE, title |-> ""]

UsedAxes ==
    [EmptyAxes EXCEPT
       !.boxes = <<[xy |-> <<R(0), R(9)>>, width |-> R(1), height |-> R(1),
                    params |-> [linewidth |-> 1, edgecolor |-> "black",
                                facecolor |-> "white", boxstyle |-> R(0)]]>>,
       !.lines = <<[xs |-> <<R(0), R(1)>>, ys |-> <<R(9), R(9)>>,
                    props |-> [lw |-> 1, color |-> "blue"]]>>]

\* Box(xy, width, height, params)
Box(xy, width, height, params) ==
    [xy |-> xy, width |-> width, height |-> height, params |-> params]

\* _add_box_to_ax: the patch is appended to the Axes
_add_box_to_ax(a, box) == [a EXCEPT !.boxes = Append(a.boxes, box)]

\* np.linspace called with endpoint=False
linspace_no_endpoint(start, stop, num) ==
    LET step == RDiv(RSub(stop, start), R(num))
    IN  [i \in 1..num |-> RAdd(RMul(R(i - 1), step), start)]

\* np.linspace(start, stop, num) for num >= 2
linspace(start, stop, num) ==
    LET step == RDiv(RSub(stop, start), R(num - 1))
    IN  [i \in 1..num |-> RAdd(RMul(R(i - 1), step), start)]

Min(a, b) == IF a <= b THEN a ELSE b

\* _plot_locuses without the test of the length of x_grid
_plot_locuses_no_len_test(self, a, args, x_grid) ==
    LET locuses == locuses_getter(self.length, self.locuses).items
        n == Len(locuses)
        mismatch == FALSE
        grid == IF x_grid = None
                THEN SubSeq(linspace(args.x, args.width, n + 2), 2, n + 1)
                ELSE x_grid.items
        extend == RMul(<<3, 50>>, args.height)
        lower == RSub(args.y, extend)
        upper == RAdd(RAdd(args.y, args.height), extend)
        v_length == RDiv(RSub(upper, lower), R(2))
        line(i) ==
            LET locus == RMul(locuses[i], args.width)
            IN  [xs |-> IF args.show_extentions
                        THEN <<locus, locus, grid[i], grid[i]>>
                        ELSE <<locus, locus>>,
                 ys |-> IF args.show_extentions
                        THEN <<upper, lower, RSub(lower, v_length),
                               RSub(lower, RMul(R(2), v_length))>>
                        ELSE <<upper, lower>>,
                 props |-> [lw |-> linewidth, color |-> locuses_color]]
        k == Min(n, Len(grid))
        drawn == [i \in 1..k |-> line(i)]
    IN  IF mismatch
        THEN [ax |-> a, exc |-> "ValueError: X grid len"]
        ELSE [ax |-> [a EXCEPT
                        !.lines = a.lines \o drawn,
                        !.ylim = IF args.show_extentions /\ k >= 1
                                 THEN <<RSub(RSub(args.y, args.pad), RMul(R(2), v_length)),
                                        RAdd(args.height, args.pad)>>
                                 ELSE a.ylim],
              exc |-> NoExc]

\* _plot_locuses: [ax, exc]; self.locuses is not None here
_plot_locuses(self, a, args, x_grid) ==
    LET locuses == locuses_getter(self.length, self.locuses).items
        n == Len(locuses)
        mismatch == x_grid # None /\ Len(x_grid.items) # n
        grid == IF x_grid = None
                THEN SubSeq(linspace(args.x, args.width, n + 2), 2, n + 1)
                ELSE x_grid.items
        extend == RMul(<<3, 50>>, args.height)
        lower == RSub(args.y, extend)
        upper == RAdd(RAdd(args.y, args.height), extend)
        v_length == RDiv(RSub(upper, lower), R(2))
        line(i) ==
            LET locus == RMul(locuses[i], args.width)
            IN  [xs |-> IF args.show_extentions
                        THEN <<locus, locus, grid[i], grid[i]>>
                        ELSE <<locus, locus>>,
                 ys |-> IF args.show_extentions
                        THEN <<upper, lower, RSub(lower, v_length),
                               RSub(lower, RMul(R(2), v_length))>>
                        ELSE <<upper, lower>>,
                 props |-> [lw |-> linewidth, color |-> locuses_color]]
        k == Min(n, Len(grid))
        drawn == [i \in 1..k |-> line(i)]
    IN  IF mismatch
        THEN [ax |-> a, exc |-> "ValueError: X grid len"]
        ELSE [ax |-> [a EXCEPT
                        !.lines = a.lines \o drawn,
                        !.ylim = IF args.show_extentions /\ k >= 1
                                 THEN <<RSub(RSub(args.y, args.pad), RMul(R(2), v_length)),
                                        RAdd(args.height, args.pad)>>
                                 ELSE a.ylim],
              exc |-> NoExc]

\* the body that draws the undivided box when no centromere is set
plot_body_fallback(self, a, args) ==
    LET box_params == [linewidth |-> linewidth, edgecolor |-> edgecolor,
                       facecolor |-> facecolor, boxstyle |-> corner_radius]
        ax1 == [a EXCEPT
                  !.xlim = <<RSub(args.x, args.pad), RAdd(args.width, args.pad)>>,
                  !.ylim = <<RSub(args.y, args.pad), RAdd(args.height, args.pad)>>,
                  !.aspect = "equal"]
    IN  IF args.show_centromere /\ centromere_getter(self.centromere) # None
        THEN IF FALSE
             THEN [ax |-> ax1, exc |-> "ValueError: set or pass centromere"]
             ELSE LET centromere ==
                          RDiv(RMul(R(centromere_getter(self.centromere).v), args.width),
                               R(self.length))
                      box1 == Box(<<args.x, args.y>>, RSub(centromere, args.gap),
                                  args.height, box_params)
                      box2 == Box(<<centromere, args.y>>,
                                  RAdd(RSub(args.width, centromere), args.gap),
                                  args.height, box_params)
                  IN  [ax |-> _add_box_to_ax(_add_box_to_ax(ax1, box1), box2),
                       exc |-> NoExc]
        ELSE [ax |-> _add_box_to_ax(ax1, Box(<<args.x, args.y>>, args.width,
                                              args.height, box_params)),
              exc |-> NoExc]

\* the body of plot_chromosome up to and including the boxes: [ax, exc]
plot_body(self, a, args) ==
    LET box_params == [linewidth |-> linewidth, edgecolor |-> edgecolor,
                       facecolor |-> facecolor, boxstyle |-> corner_radius]
        ax1 == [a EXCEPT
                  !.xlim = <<RSub(args.x, args.pad), RAdd(args.width, args.pad)>>,
                  !.ylim = <<RSub(args.y, args.pad), RAdd(args.height, args.pad)>>,
                  !.aspect = "equal"]
    IN  IF args.show_centromere
        THEN IF centromere_getter(self.centromere) = None
             THEN [ax |-> ax1, exc |-> "ValueError: set or pass centromere"]
             ELSE LET centromere ==
                          RDiv(RMul(R(centromere_getter(self.centromere).v), args.width),
                               R(self.length))
                      box1 == Box(<<args.x, args.y>>, RSub(centromere, args.gap),
                                  args.height, box_params)
                      box2 == Box(<<centromere, args.y>>,
                                  RAdd(RSub(args.width, centromere), args.gap),
                                  args.height, box_params)
                  IN  [ax |-> _add_box_to_ax(_add_box_to_ax(ax1, box1), box2),
                       exc |-> NoExc]
        ELSE [ax |-> _add_box_to_ax(ax1, Box(<<args.x, args.y>>, args.width,
                                              args.height, box_params)),
              exc |-> NoExc]

\* the locus step raising where the code warns
plot_locuses_step_raises(self, a, args) ==
    IF args.show_locuses
    THEN IF locuses_getter(self.length, self.locuses) = None
         THEN [ax |-> a, exc |-> "ValueError: no locuses", warned |-> 0]
         ELSE LET r == _plot_locuses(self, a, args, args.locuses_x_grid)
              IN  [ax |-> r.ax, exc |-> r.exc, warned |-> 0]
    ELSE [ax |-> a, exc |-> NoExc, warned |-> 0]

\* the locus step of plot_chromosome: [ax, exc, warned]
plot_locuses_step(self, a, args) ==
    IF args.show_locuses
    THEN IF locuses_getter(self.length, self.locuses) = None
         THEN [ax |-> a, exc |-> NoExc, warned |-> 1]
         ELSE LET r == _plot_locuses(self, a, args, args.locuses_x_grid)
              IN  [ax |-> r.ax, exc |-> r.exc, warned |-> 0]
    ELSE [ax |-> a, exc |-> NoExc, warned |-> 0]

\* the last two steps of plot_chromosome: set_axis_off and set_title
plot_finish(self, a, args) ==
    [a EXCEPT !.axis_on = IF ~args.show_axes THEN FALSE ELSE a.axis_on,
              !.title = IF args.show_name THEN "Chromosome " \o self.name ELSE a.title]

\* plot_chromosome: [ax, exc, warned]
plot_chromosome(self, a, args) ==
    LET b == plot_body(self, a, args)
    IN  IF b.exc # NoExc THEN [ax |-> b.ax, exc |-> b.exc, warned |-> 0]
        ELSE LET l == plot_locuses_step(self, b.ax, args)
             IN  IF l.exc # NoExc THEN l
                 ELSE [ax |-> plot_finish(self, l.ax, args), exc |-> NoExc,
                       warned |-> l.warned]

-----------------------------------------------------------------------------
(* Inputs *)

Coords(len) == {Num(n) : n \in (-1)..(len + 1)} \cup {Obj}

\* the elements a collection of locuses is built from
Elements(len) == {Num(n) : n \in 0..(len + 1)} \cup {Obj}

SeqsUpTo(S, n) == UNION {[1..k -> S] : k \in 0..n}

CentromereInputs(len) == {None, List(<<Num(0)>>)} \cup Coords(len)

LocusesInputs(len) ==
    {None} \cup Coords(len) \cup {List(s) : s \in SeqsUpTo(Elements(len), MaxLocuses)}


-----------------------------------------------------------------------------
(* __init__: the states in which construction succeeded *)
Init ==
    \E len \in 1..MaxLength :
      \E c \in CentromereInputs(len), l \in LocusesInputs(len) :
        LET rc == centromere_setter(len, None, c)
            rl == locuses_setter(len, None, l)
        IN  /\ rc.exc = NoExc
            /\ rl.exc = NoExc
            /\ length = len
            /\ _centromere = rc.centromere
            /\ _locuses = rl.locuses
            /\ ax = EmptyAxes
            /\ call = [op |-> "__init__", centromere |-> c, locuses |-> l]
            /\ pc = "done"
            /\ exc = NoExc
            /\ ret = None
            /\ warned = 0
            /\ setArg = l

SetCentromere ==
    \E c \in CentromereInputs(length) :
      LET r == centromere_setter(length, _centromere, c)
      IN  /\ _centromere' = r.centromere
          /\ exc' = r.exc
          /\ call' = [op |-> "set_centromere", arg |-> c]
          /\ ret' = None
          /\ warned' = 0
          /\ UNCHANGED <<length, _locuses, ax, pc, setArg>>

SetLocuses ==
    \E l \in LocusesInputs(length) :
      LET r == locuses_setter(length, _locuses, l)
      IN  /\ _locuses' = r.locuses
          /\ exc' = r.exc
          /\ call' = [op |-> "set_locuses", kind |-> l.t, passed |-> r.passed]
          /\ ret' = None
          /\ warned' = 0
          /\ setArg' = IF r.exc = NoExc THEN l ELSE setArg
          /\ UNCHANGED <<length, _centromere, ax, pc>>

GetCentromere ==
    /\ ret' = centromere_getter(_centromere)
    /\ exc' = NoExc
    /\ call' = [op |-> "get_centromere"]
    /\ warned' = 0
    /\ UNCHANGED <<length, _centromere, _locuses, ax, pc, setArg>>

GetLocuses ==
    /\ ret' = locuses_getter(length, _locuses)
    /\ exc' = NoExc
    /\ call' = [op |-> "get_locuses"]
    /\ warned' = 0
    /\ UNCHANGED <<length, _centromere, _locuses, ax, pc, setArg>>

Next ==
    \/ SetCentromere
    \/ SetLocuses
    \/ GetCentromere
    \/ GetLocuses

Spec == Init /\ [][Next]_vars

-----------------------------------------------------------------------------
(* Properties of the entity, checked under Spec *)

InRange(coord) == IsNumber(coord) /\ 0 <= coord.v /\ coord.v <= length

\* C1: after construction and after any sequence of assignments to centromere
\* and locuses, failing or not, the stored centromere is None or a number in
\* [0, length], and the stored locuses are None or a collection of numbers in
\* [0, length].
C1_StoredInRange ==
    /\ (_centromere = None \/ InRange(_centromere))
    /\ \/ _locuses = None
       \/ /\ IsIterable(_locuses)
          /\ \A i \in 1..Len(_locuses.items) : InRange(_locuses.items[i])

\* a failed assignment to locuses, made while both fields hold coordinates
C1_Witness ==
    /\ call.op = "set_locuses"
    /\ exc # NoExc
    /\ _centromere # None
    /\ _locuses # None
    /\ Len(_locuses.items) = MaxLocuses

\* C2: assigning centromere a number above length or below 0 raises the range
\* error, a value that is neither None nor a number raises the type error,
\* None is accepted and read back as None, and a number in [0, length] is
\* accepted and read back as itself, not divided by length.
C2_SetCentromere ==
    /\ call.op = "set_centromere" =>
         LET v == call.arg
         IN  /\ (IsNumber(v) /\ (v.v > length \/ v.v < 0))
                  => exc = "KeyError: out of length"
             /\ (v # None /\ ~IsNumber(v))
                  => exc = "ValueError: should be a number"
             /\ v = None
                  => (exc = NoExc /\ centromere_getter(_centromere) = None)
             /\ (IsNumber(v) /\ 0 <= v.v /\ v.v <= length)
                  => (exc = NoExc /\ centromere_getter(_centromere) = v)
    /\ call.op = "get_centromere" => (exc = NoExc /\ ret = _centromere)

\* None has been assigned over a stored centromere coordinate
C2_Witness ==
    /\ call.op = "set_centromere"
    /\ call.arg = None
    /\ exc = NoExc
    /\ _centromere = None
    /\ _locuses # None

\* r = n / len, by cross-multiplication
IsQuotient(r, n, len) == r[2] > 0 /\ r[1] * len = n * r[2]

InUnit(r) == r[2] > 0 /\ 0 <= r[1] /\ r[1] <= r[2]

\* C3: reading locuses after a successful assignment of v returns None for
\* None, [v / length] for a single number, and otherwise a sequence as long as
\* v whose i-th element is v[i] / length, every element in [0, 1]; the result
\* is determined by v and length, so repeated reads agree.
C3_GetLocuses ==
    call.op = "get_locuses" =>
      /\ exc = NoExc
      /\ setArg = None => ret = None
      /\ IsNumber(setArg) =>
           /\ IsIterable(ret)
           /\ Len(ret.items) = 1
           /\ IsQuotient(ret.items[1], setArg.v, length)
           /\ InUnit(ret.items[1])
      /\ IsIterable(setArg) =>
           /\ IsIterable(ret)
           /\ Len(ret.items) = Len(setArg.items)
           /\ \A i \in 1..Len(setArg.items) :
                /\ IsQuotient(ret.items[i], setArg.items[i].v, length)
                /\ InUnit(ret.items[i])

\* locuses read after a list of two different coordinates, the larger first,
\* was assigned through the setter
C3_Witness ==
    /\ call.op = "get_locuses"
    /\ IsIterable(setArg)
    /\ Len(setArg.items) = 2
    /\ setArg.items[1].v > setArg.items[2].v
    /\ setArg.items[2].v > 0
    /\ ret.items[1] # ret.items[2]

\* C10: an assignment to centromere or locuses that fails validation leaves
\* both stored fields as they were, also when a later element of the locuses
\* fails after earlier ones passed; a successful assignment to one field
\* leaves the other as it was.
C10_SetterFrame ==
    [][/\ (call'.op \in {"set_centromere", "set_locuses"} /\ exc' # NoExc)
          => (_centromere' = _centromere /\ _locuses' = _locuses)
       /\ call'.op = "set_centromere" => _locuses' = _locuses
       /\ call'.op = "set_locuses" => _centromere' = _centromere]_vars

\* an assignment of two locuses failed on the second after the first passed,
\* while other locuses were stored
C10_Witness ==
    /\ call.op = "set_locuses"
    /\ exc # NoExc
    /\ call.kind = "list"
    /\ call.passed >= 1
    /\ _locuses # None
    /\ _centromere # None

-----------------------------------------------------------------------------
(* Drawing: plot_chromosome applied once to a constructed Chromosome, an    *)
(* Axes and keyword arguments drawn from the sets below                     *)

XS == {R(0), R(2)}
Widths == {R(1), R(2)}
Gaps == {R(0), <<3, 5>>}
Pads == {R(0), <<3, 2>>}
AxesNameFlags == {<<FALSE, TRUE>>, <<TRUE, FALSE>>}
AxesInputs == {EmptyAxes, UsedAxes}

\* y and height are the same in every call
YArg == R(1)
HeightArg == R(5)

\* locuses_x_grid: absent, or an explicit grid of one or of two points
GridInputs == {None, List(<<R(1)>>), List(<<R(1), R(2)>>)}

ListInputs(len) == {None} \cup {List(s) : s \in SeqsUpTo(Elements(len), MaxLocuses)}

Self == [length |-> length, name |-> "chr", centromere |-> _centromere,
         locuses |-> _locuses]

InitDraw ==
    \E len \in 1..MaxLength :
      \E c \in CentromereInputs(len), l \in ListInputs(len) :
        LET rc == centromere_setter(len, None, c)
            rl == locuses_setter(len, None, l)
        IN  /\ rc.exc = NoExc
            /\ rl.exc = NoExc
            /\ length = len
            /\ _centromere = rc.centromere
            /\ _locuses = rl.locuses
            /\ ax = EmptyAxes
            /\ call = [op |-> "__init__", centromere |-> c, locuses |-> l]
            /\ pc = "ready"
            /\ exc = NoExc
            /\ ret = None
            /\ warned = 0
            /\ setArg = l

\* one call of plot_chromosome on the Axes a0
PlotChromosome ==
    /\ pc = "ready"
    /\ \E a0 \in AxesInputs, x \in XS, w \in Widths, g \in Gaps, p \in Pads,
          sc \in BOOLEAN, sl \in BOOLEAN, se \in BOOLEAN, f \in AxesNameFlags,
          xg \in GridInputs :
         LET args == [x |-> x, y |-> YArg, width |-> w, height |-> HeightArg,
                      gap |-> g, pad |-> p, show_centromere |-> sc,
                      show_locuses |-> sl, show_extentions |-> se,
                      show_axes |-> f[1], show_name |-> f[2],
                      locuses_x_grid |-> xg]
         IN  \E r \in {plot_chromosome(Self, a0, args)} :
               /\ call' = [op |-> "plot_chromosome", args |-> args, ax |-> a0]
               /\ ax' = r.ax
               /\ exc' = r.exc
               /\ warned' = r.warned
    /\ pc' = "done"
    /\ ret' = None
    /\ UNCHANGED <<length, _centromere, _locuses, setArg>>

NextDraw == PlotChromosome

SpecDraw == InitDraw /\ [][NextDraw]_vars

-----------------------------------------------------------------------------
(* Properties of plot_chromosome, checked under SpecDraw *)

Drawn == pc = "done" /\ call.op = "plot_chromosome"

\* what the call added to the Axes it was given
NewBoxes == SubSeq(ax.boxes, Len(call.ax.boxes) + 1, Len(ax.boxes))
NewLines == SubSeq(ax.lines, Len(call.ax.lines) + 1, Len(ax.lines))

\* what the Axes held before the call is still there, in place
OldKept ==
    /\ Len(ax.boxes) >= Len(call.ax.boxes)
    /\ Len(ax.lines) >= Len(call.ax.lines)
    /\ SubSeq(ax.boxes, 1, Len(call.ax.boxes)) = call.ax.boxes
    /\ SubSeq(ax.lines, 1, Len(call.ax.lines)) = call.ax.lines

MissingCentromere == call.args.show_centromere /\ _centromere = None

NoLocuses == _locuses = None

\* the number of body boxes the call draws
BodyCount == IF call.args.show_centromere THEN 2 ELSE 1

\* C4: drawing with show_centromere on an entity without a centromere fails
\* with the missing-value error, and the failing call adds no box and no line.
C4_MissingCentromere ==
    (Drawn /\ MissingCentromere) =>
      /\ exc = "ValueError: set or pass centromere"
      /\ OldKept
      /\ NewBoxes = <<>>
      /\ NewLines = <<>>

\* the failing call was given an Axes that already held a drawing, and asked
\* for the locuses of an entity that has some
C4_Witness ==
    /\ Drawn
    /\ MissingCentromere
    /\ call.ax = UsedAxes
    /\ call.args.show_locuses
    /\ ~NoLocuses
    /\ Len(_locuses.items) >= 1
    /\ exc # NoExc

\* the warning, no tick line, the body boxes and the axes and title steps
WarnedAndCompleted ==
    /\ exc = NoExc
    /\ warned = 1
    /\ OldKept
    /\ NewLines = <<>>
    /\ Len(NewBoxes) = BodyCount
    /\ ax.axis_on = (call.args.show_axes /\ call.ax.axis_on)
    /\ ax.title = IF call.args.show_name THEN "Chromosome chr" ELSE call.ax.title

\* C5 as stated: drawing with show_locuses on an entity without locuses never
\* fails; it warns, adds no tick line and completes the remaining steps.
C5_Original == (Drawn /\ call.args.show_locuses /\ NoLocuses) => WarnedAndCompleted

\* C5: drawing with show_locuses on an entity whose locuses are None, when
\* show_centromere is off or a centromere is set, does not fail: it warns
\* once, adds no tick line, draws the body boxes and runs the axes and title
\* steps.
C5_NoLocusesWarns ==
    (Drawn /\ call.args.show_locuses /\ NoLocuses /\ ~MissingCentromere)
      => WarnedAndCompleted

\* the warning was given after the two boxes of a split body were drawn
C5_Witness ==
    /\ Drawn
    /\ call.args.show_locuses
    /\ NoLocuses
    /\ call.args.show_centromere
    /\ _centromere # None
    /\ warned = 1
    /\ Len(NewBoxes) = 2
    /\ ax.title = "Chromosome chr"

GridMismatch ==
    /\ call.args.show_locuses
    /\ ~NoLocuses
    /\ call.args.locuses_x_grid # None
    /\ Len(call.args.locuses_x_grid.items) # Len(_locuses.items)

\* the length-mismatch error, no tick line, and the body boxes in place
MismatchRaised ==
    /\ exc = "ValueError: X grid len"
    /\ OldKept
    /\ NewLines = <<>>
    /\ Len(NewBoxes) = BodyCount

\* C6 as stated: an explicit grid whose length differs from the number of
\* locuses always makes the call fail with the length-mismatch error before a
\* tick line is added, the body boxes of the call remaining.
C6_Original == (Drawn /\ GridMismatch) => MismatchRaised

\* C6: with show_locuses, locuses set and an explicit grid whose length
\* differs from the number of locuses, when show_centromere is off or a
\* centromere is set, the call fails with the length-mismatch error before any
\* tick line is added, and the body boxes drawn by the call remain.
C6_GridMismatch == (Drawn /\ GridMismatch /\ ~MissingCentromere) => MismatchRaised

\* two locuses against a grid of one point, after a split body was drawn
C6_Witness ==
    /\ Drawn
    /\ GridMismatch
    /\ Len(_locuses.items) = 2
    /\ Len(call.args.locuses_x_grid.items) = 1
    /\ call.args.show_centromere
    /\ _centromere # None
    /\ Len(NewBoxes) = 2
    /\ exc # NoExc

\* C7: with show_centromere and a centromere set the call adds exactly two
\* boxes of the same height and style, the left one anchored at (x, y), the
\* left edge of the right box lying gap beyond the right edge of the left box;
\* without show_centromere it adds exactly one box at (x, y) of the full width.
C7_BodyBoxes ==
    Drawn =>
      /\ (call.args.show_centromere /\ _centromere # None) =>
           /\ Len(NewBoxes) = 2
           /\ NewBoxes[1].height = NewBoxes[2].height
           /\ NewBoxes[1].params = NewBoxes[2].params
           /\ NewBoxes[1].xy = <<call.args.x, call.args.y>>
           /\ RSub(NewBoxes[2].xy[1], RAdd(NewBoxes[1].xy[1], NewBoxes[1].width))
                = call.args.gap
      /\ ~call.args.show_centromere =>
           /\ Len(NewBoxes) = 1
           /\ NewBoxes[1].xy = <<call.args.x, call.args.y>>
           /\ NewBoxes[1].width = call.args.width

StrictlyBetween(p, a, b) == (RLt(a, p) /\ RLt(p, b)) \/ (RLt(b, p) /\ RLt(p, a))

TickLow == RSub(call.args.y, RMul(<<3, 50>>, call.args.height))
TickHigh == RAdd(RAdd(call.args.y, call.args.height), RMul(<<3, 50>>, call.args.height))

\* one line per locus, in locus order, each with its tick and its grid point
LinesAsClaimed ==
    LET n == Len(_locuses.items)
    IN  /\ Len(NewLines) = n
        /\ \A i \in 1..n :
             LET line == NewLines[i]
                 tick == RDiv(RMul(R(_locuses.items[i].v), call.args.width), R(length))
                 point == RAdd(call.args.x,
                               RDiv(RMul(R(i), RSub(call.args.width, call.args.x)),
                                    R(n + 1)))
             IN  /\ line.xs[1] = tick
                 /\ line.xs[2] = tick
                 /\ {line.ys[1], line.ys[2]} = {TickLow, TickHigh}
                 /\ call.args.show_extentions =>
                      /\ Len(line.xs) = 4
                      /\ line.xs[4] = point
                      /\ StrictlyBetween(point, call.args.x, call.args.width)

GeneratedGrid ==
    /\ call.args.show_locuses
    /\ ~NoLocuses
    /\ Len(_locuses.items) >= 1
    /\ call.args.locuses_x_grid = None

\* C8 as stated: with n >= 1 locuses, show_locuses and no explicit grid the
\* call always adds n lines, the i-th with its tick at locus_i * width / length
\* from y - 0.06 height to y + height + 0.06 height, ending (with
\* show_extentions) at x + i (width - x) / (n + 1), strictly between x and width.
C8_Original == (Drawn /\ GeneratedGrid) => LinesAsClaimed

\* C8: the same, when show_centromere is off or a centromere is set (the call
\* does not fail before the locuses) and x differs from width (otherwise every
\* generated grid point equals x).
C8_LocusLines ==
    (Drawn /\ GeneratedGrid /\ ~MissingCentromere /\ call.args.x # call.args.width)
      => LinesAsClaimed

\* two different locuses, the larger first, drawn with extensions from an
\* anchor to the right of width
C8_Witness ==
    /\ Drawn
    /\ GeneratedGrid
    /\ ~MissingCentromere
    /\ call.args.show_extentions
    /\ RLt(call.args.width, call.args.x)
    /\ Len(_locuses.items) = 2
    /\ _locuses.items[1].v > _locuses.items[2].v
    /\ Len(NewLines) = 2
    /\ NewLines[1].xs[4] # NewLines[2].xs[4]

\* C9: after a drawing with show_locuses and show_extentions of at least one
\* locus, the lower y-bound of the viewport is at or below every point of
\* every leader line drawn, whatever y, height and pad are.
C9_ViewportHoldsLines ==
    (/\ Drawn
     /\ exc = NoExc
     /\ call.args.show_locuses
     /\ call.args.show_extentions
     /\ ~NoLocuses
     /\ Len(_locuses.items) >= 1)
      => /\ Len(NewLines) >= 1
         /\ \A i \in 1..Len(NewLines) :
              \A j \in 1..Len(NewLines[i].ys) : RLe(ax.ylim[1], NewLines[i].ys[j])

====
